---- MODULE Spec2Model ----
(***************************************************************************)
(* A model of the lgn-coprocessor worker: the serving loop of              *)
(* lgn-worker/src/main.rs (run_worker, parse_uuid,                         *)
(* process_downstream_payload, get_wallet), the query prover               *)
(* (EuclidQueryProver) and the dummy Groth16 prover.                       *)
(*                                                                         *)
(* The proving engine (verifiable_db, parsil) is an external collaborator. *)
(* Its answer on an input is a function of that input, so every engine     *)
(* input of the model carries the answer the engine gives on it ("ok",     *)
(* an error, a panic), and a proof is the term [proof_of |-> input].       *)
(***************************************************************************)
EXTENDS Integers, Sequences, FiniteSets, TLC

VARIABLES
    pc,                      \* position of run_worker
    exit_reason,             \* why the process ended ("" while it runs)
    outbound,                \* messages accepted by the outbound mpsc channel
    outbound_open,           \* the channel's receiver is still alive
    received,                \* task_id of every Some(Ok(msg)) read from inbound
    cur,                     \* the message being processed
    result,                  \* what process_downstream_payload returned
    proving,                 \* indexes of the tasks inside block_in_place
    dispatched,              \* indexes of the tasks handed to delegate_proving
    provers_manager,         \* the ProversManager of run_worker
    now,                     \* wall clock, seconds since the epoch
    last_task_processed,     \* the AtomicU64
    liveness_check_interval, \* config.worker.liveness_check_interval
    http_reply,              \* last answer of the readiness/liveness server, and
                             \* whether a proof was being computed when it was given
    p_prover,                \* prover harness: the capability under test
    p_envelope,              \* prover harness: the envelope handed to run
    p_out,                   \* prover harness: what run returned
    callee,                  \* call harness: the function under test
    args,                    \* call harness: its arguments
    ret                      \* call harness: what it returned

vars == <<pc, exit_reason, outbound, outbound_open, received, cur, result,
          proving, dispatched, provers_manager, now, last_task_processed, liveness_check_interval,
          http_reply, p_prover, p_envelope, p_out, callee, args, ret>>

workerVars == <<pc, exit_reason, outbound, outbound_open, received, cur,
                result, proving, dispatched, provers_manager, now, last_task_processed,
                liveness_check_interval, http_reply>>

proverVars == <<p_prover, p_envelope, p_out>>

callVars == <<callee, args, ret>>

harnessVars == <<proverVars, callVars>>

----------------------------------------------------------------------------
(* Bounds of the model *)

\* longest rows_inputs / matching_rows sequence handed to the query prover
MaxRows == 2
\* longest nodes vector of a BatchedLength / BatchedContract
MaxNodes == 2
\* number of inbound task messages one run of the worker reads
MaxTasks == 2
\* largest wall-clock value
MaxTime == 2
\* largest configured liveness_check_interval
MaxInterval == 1

(* Program constants *)

\* dummy_prover.rs: const PROOF_SIZE: usize = 32
PROOF_SIZE == 32
\* main.rs parse_uuid: Uuid::from_bytes_le takes a [u8; 16]
UuidLen == 16

Min(a, b) == IF a <= b THEN a ELSE b

----------------------------------------------------------------------------
(* Results: anyhow::Result<T>, or an unwinding panic.  calls is the        *)
(* sequence of engine calls made while computing the result.               *)

OkR(v, calls) == [tag |-> "Ok", val |-> v, calls |-> calls]
ErrR(e, calls) == [tag |-> "Err", err |-> e, calls |-> calls]
PanicR(m, calls) == [tag |-> "Panic", msg |-> m, calls |-> calls]

\* anyhow::Error values: bail!("<prover>: unsupported task type. ..") and the rest
UnsupportedTaskType(prover, family, task_id) ==
    [kind |-> "unsupported task type",
     msg |-> <<prover, "unsupported task type. task_type:", family, task_id>>]
Error(msg) == [kind |-> "error", msg |-> <<msg>>]

----------------------------------------------------------------------------
(* Task taxonomy, as far as the provers read it *)

TaskIds == {"t1", "t2"}
RowIds == {"r0", "r1"}
MatchingRowIds == {"m0", "m1"}

\* what the engine does on an input: build the circuit input, then prove it
ProveFates == {"ok", "prove_err", "panic"}
Fates == {"ok", "build_err", "prove_err", "panic"}

SeqsUpTo(S, n) == UNION {[1..k -> S] : k \in 0..n}

RowInputs == [row : RowIds, engine : Fates]
MatchingRows == [id : MatchingRowIds]

\* input.pis: bytes that serde_json decodes to a DynamicCircuitPis, or not
PisBytes == [json : BOOLEAN]

TabularSteps(n) ==
    [step : {"Tabular"},
     rows_inputs : SeqsUpTo(RowInputs, n),
     revelation_input : [matching_rows : SeqsUpTo(MatchingRows, n),
                         engine : Fates]]

CircuitInputSteps ==
    [step : {"QueryCircuitInput"},
     circuit_input : [kind : {"boxed"}, engine : ProveFates]]

QueryTasks(n) ==
    [family : {"V1Query"},
     input : [pis : PisBytes, query_step : TabularSteps(n) \cup CircuitInputSteps]]

PreprocessingTasks == [family : {"V1Preprocessing"}, input : [engine : ProveFates]]
Groth16Tasks == [family : {"V1Groth16"}, input : [revelation_proof : {"rp"}]]

TaskTypes(n) == PreprocessingTasks \cup QueryTasks(n) \cup Groth16Tasks

\* MessageEnvelope { task_id, task }
Envelopes(n) == [task_id : TaskIds, task : TaskTypes(n)]

\* MessageReplyEnvelope::new(task_id, proof)
MessageReplyEnvelopeNew(task_id, proof) == [task_id |-> task_id, proof |-> proof]

----------------------------------------------------------------------------
(* EuclidQueryProver, euclid_prover.rs *)

\* self.params.generate_proof(circuit_input), the external engine
GenerateProof(circuit_input) ==
    CASE circuit_input.engine = "ok" -> OkR([proof_of |-> circuit_input], <<>>)
      [] circuit_input.engine = "panic" -> PanicR("generate_proof", <<>>)
      [] OTHER -> ErrR(Error("proving engine failure"), <<>>)

ProveCircuitInputTwice(circuit_input, calls) ==
    LET call == [op |-> "generate_proof", input |-> circuit_input]
        r == GenerateProof(circuit_input)
    IN  CASE r.tag = "Ok" -> OkR(r.val, calls \o <<call, call>>)
          [] r.tag = "Panic" -> PanicR(r.msg, calls \o <<call, call>>)
          [] OTHER -> ErrR(Error("while generating proof for the universal circuit"),
                           calls \o <<call, call>>)

\* prove_circuit_input: generate_proof(..).context(..)?
ProveCircuitInput(circuit_input, calls) ==
    LET called == Append(calls, [op |-> "generate_proof", input |-> circuit_input])
        r == GenerateProof(circuit_input)
    IN  CASE r.tag = "Ok" -> OkR(r.val, called)
          [] r.tag = "Panic" -> PanicR(r.msg, called)
          [] OTHER -> ErrR(Error("while generating proof for the universal circuit"), called)

\* CircuitInput::new_universal_circuit(&row_input.column_cells, .., &pis.bounds)
NewUniversalCircuit(row_input) ==
    IF row_input.engine = "build_err"
    THEN ErrR(Error("while initializing the universal circuit"), <<>>)
    ELSE OkR([kind |-> "Query", row |-> row_input.row, engine |-> row_input.engine], <<>>)

\* matching_row.hydrate(proof)
Hydrate(matching_row, proof) == [row |-> matching_row, proof |-> proof]

PushFront(v, x) == <<x>> \o v

\* matching_rows_proofs.push(..)
Push(v, x) == Append(v, x)

\* rows_inputs.iter().zip(matching_rows): as long as the shorter of the two
ZipLen(rows_inputs, matching_rows) == Min(Len(rows_inputs), Len(matching_rows))

\* revelation::api::CircuitInput::new_revelation_tabular(indexing_proof,
\* matching_rows, ..) followed by QueryCircuitInput::Revelation(..)
NewRevelationTabular(revelation_input, matching_rows) ==
    IF revelation_input.engine = "build_err"
    THEN ErrR(Error("while initializing the (empty) revelation circuit"), <<>>)
    ELSE OkR([kind |-> "Revelation", matching_rows |-> matching_rows,
              engine |-> revelation_input.engine], <<>>)

\* prove_tabular_revelation
ProveTabularRevelation(revelation_input, matching_rows, calls) ==
    LET called == Append(calls, [op |-> "new_revelation_tabular",
                                 input |-> matching_rows])
        built == NewRevelationTabular(revelation_input, matching_rows)
    IN  IF built.tag = "Err"
        THEN ErrR(built.err, called)
        ELSE ProveCircuitInput(built.val, called)

\* the for loop of run_inner, from its i-th iteration on
RECURSIVE ProveRows(_, _, _, _, _)
ProveRows(rows_inputs, matching_rows, i, matching_rows_proofs, calls) ==
    IF i > ZipLen(rows_inputs, matching_rows)
    THEN OkR(matching_rows_proofs, calls)
    ELSE LET row_input == rows_inputs[i]
             matching_row == matching_rows[i]
             called == Append(calls, [op |-> "new_universal_circuit",
                                      input |-> row_input])
             built == NewUniversalCircuit(row_input)
         IN  IF built.tag = "Err"
             THEN ErrR(built.err, called)
             ELSE LET proved == ProveCircuitInput(built.val, called)
                  IN  IF proved.tag # "Ok"
                      THEN proved
                      ELSE ProveRows(rows_inputs, matching_rows, i + 1,
                                     Push(matching_rows_proofs,
                                          Hydrate(matching_row, proved.val)),
                                     proved.calls)

\* run_inner
RunInner(task_type) ==
    LET input == task_type.input IN
    IF ~input.pis.json
    THEN ErrR(Error("pis: serde_json error"), <<>>)
    ELSE IF input.query_step.step = "Tabular"
         THEN LET revelation_input == input.query_step.revelation_input
                  rows == ProveRows(input.query_step.rows_inputs,
                                    revelation_input.matching_rows, 1, <<>>, <<>>)
              IN  IF rows.tag # "Ok"
                  THEN rows
                  ELSE ProveTabularRevelation(revelation_input, rows.val, rows.calls)
         ELSE ProveCircuitInput(input.query_step.circuit_input, <<>>)

EuclidTaskIdDefault(envelope) == ""

\* let task_id = envelope.task_id.clone()
EuclidTaskId(envelope) == envelope.task_id

\* <EuclidQueryProver as LgnProver>::run
EuclidQueryProverRun(envelope) ==
    LET task_id == EuclidTaskId(envelope) IN
    CASE envelope.task.family = "V1Preprocessing" ->
           ErrR(UnsupportedTaskType("EuclidQueryProver", "V1Preprocessing", task_id), <<>>)
      [] envelope.task.family = "V1Query" ->
           LET proof == RunInner(envelope.task)
           IN  IF proof.tag = "Ok"
               THEN OkR(MessageReplyEnvelopeNew(task_id, proof.val), proof.calls)
               ELSE proof
      [] envelope.task.family = "V1Groth16" ->
           ErrR(UnsupportedTaskType("EuclidQueryProver", "V1Groth16", task_id), <<>>)

----------------------------------------------------------------------------
(* Groth16DummyProver, dummy_prover.rs *)

\* dummy_proof(PROOF_SIZE): PROOF_SIZE random bytes
DummyProof(size) == [dummy |-> TRUE, len |-> size]

Groth16TaskIdDefault(envelope) == ""

\* envelope.task_id.clone()
Groth16TaskId(envelope) == envelope.task_id

\* <Groth16DummyProver as LgnProver>::run
Groth16DummyProverRun(envelope) ==
    CASE envelope.task.family = "V1Preprocessing" ->
           ErrR(UnsupportedTaskType("Groth16DummyProver", "V1Preprocessing", ""), <<>>)
      [] envelope.task.family = "V1Query" ->
           PanicR("Groth16DummyProver: unsupported task type. task_type: V1Query", <<>>)
      [] envelope.task.family = "V1Groth16" ->
           OkR(MessageReplyEnvelopeNew(Groth16TaskId(envelope), DummyProof(PROOF_SIZE)),
               <<>>)

----------------------------------------------------------------------------
(* Wire messages, lgn-worker/src/main.rs *)

NotRun == [tag |-> "NotRun"]
\* run_worker has not yet bound provers_manager
NotBuilt == [tag |-> "NotBuilt"]
NoMessage == [tag |-> "None"]

\* WorkerToGwResponse.task_id: Option<Uuid { id: bytes }>; v names the bytes
NoTaskId == [some |-> FALSE, len |-> 0, v |-> "nil"]
WireTaskIds ==
    {NoTaskId,
     [some |-> TRUE, len |-> UuidLen, v |-> "a"],
     [some |-> TRUE, len |-> UuidLen - 1, v |-> "a"]}

\* serde_json::to_vec(&reply_envelope): the JSON bytes of a value
ToVec(value) == [json |-> TRUE, value |-> value]
\* bytes that are no JSON encoding of a Message
Malformed == [json |-> FALSE]

\* the envelopes the coordinator sends to this worker: every family, and for
\* each the answers of the engine that end a task differently
WorkerTaskIds == {"t1"}
WorkerTabularSteps ==
    [step : {"Tabular"},
     rows_inputs : {<<r>> : r \in [row : {"r0"}, engine : Fates]},
     revelation_input : [matching_rows : {<<[id |-> "m0"]>>}, engine : {"ok"}]]
WorkerQueryTasks ==
    [family : {"V1Query"},
     input : [pis : {[json |-> TRUE]}, query_step : WorkerTabularSteps]]
    \cup
    [family : {"V1Query"},
     input : [pis : {[json |-> FALSE]},
              query_step : [step : {"QueryCircuitInput"},
                            circuit_input : [kind : {"boxed"}, engine : {"ok"}]]]]
WorkerEnvelopes ==
    [task_id : WorkerTaskIds,
     task : PreprocessingTasks \cup WorkerQueryTasks \cup Groth16Tasks]

\* WorkerToGwResponse { task_id, task }
InboundMessages ==
    [task_id : WireTaskIds, task : {ToVec(e) : e \in WorkerEnvelopes} \cup {Malformed}]

\* WorkerToGwRequest::WorkerReady { version, worker_class }
WorkerReady ==
    [type |-> "WorkerReady", version |-> "CARGO_PKG_VERSION",
     worker_class |-> "instance_type-major"]

WorkerDoneWithoutId(task_id, reply) ==
    [type |-> "WorkerDone", task_id |-> NoTaskId, reply |-> reply]

\* WorkerToGwRequest::WorkerDone { task_id, reply }
WorkerDone(task_id, reply) == [type |-> "WorkerDone", task_id |-> task_id, reply |-> reply]
\* Reply::TaskOutput(bytes)
TaskOutput(bytes) == [kind |-> "TaskOutput", bytes |-> bytes]
\* Reply::WorkerError(format!("{:?}", err))
WorkerError(err) == [kind |-> "WorkerError", text |-> [debug |-> err]]

----------------------------------------------------------------------------
(* parse_uuid and process_downstream_payload *)

\* parse_uuid: nil when the task_id is absent, else
\* Uuid::from_bytes_le(id.id.clone().try_into().unwrap())
ParseUuid(message) ==
    IF ~message.task_id.some
    THEN OkR([uuid |-> "nil"], <<>>)
    ELSE IF message.task_id.len = UuidLen
         THEN OkR([uuid |-> <<"le", message.task_id.v>>], <<>>)
         ELSE PanicR("try_into().unwrap() on an Err value", <<>>)

DecodeAnything(bytes) ==
    OkR([task_id |-> "t1",
         task |-> [family |-> "V1Groth16", input |-> [revelation_proof |-> "rp"]]],
        <<>>)

\* serde_json::from_slice::<Message>(&message.task)
FromSlice(bytes) ==
    IF bytes.json
    THEN OkR(bytes.value, <<>>)
    ELSE ErrR(Error("Failed to deserialize envelope"), <<>>)

\* the preprocessing capability (V1Prover::run)
PreprocessingProverRun(envelope) ==
    CASE envelope.task.input.engine = "ok" ->
           OkR(MessageReplyEnvelopeNew(envelope.task_id,
                                       [proof_of |-> envelope.task.input]), <<>>)
      [] envelope.task.input.engine = "panic" -> PanicR("preprocessing", <<>>)
      [] OTHER -> ErrR(Error("preprocessing proving failure"), <<>>)

\* ProversManager::delegate_proving: the capability of the envelope's family
DelegateProving(envelope) ==
    CASE envelope.task.family = "V1Preprocessing" -> PreprocessingProverRun(envelope)
      [] envelope.task.family = "V1Query" -> EuclidQueryProverRun(envelope)
      [] envelope.task.family = "V1Groth16" -> Groth16DummyProverRun(envelope)

PanicSwallowed(r) == OkR(r, <<>>)

\* std::panic::catch_unwind(|| provers_manager.delegate_proving(envelope))
\* and the match on its result
CatchUnwind(r) ==
    CASE r.tag = "Ok" -> OkR(r.val, <<>>)
      [] r.tag = "Err" -> ErrR(r.err, <<>>)
      [] r.tag = "Panic" ->
           ErrR([kind |-> "panic",
                 msg |-> <<"panic encountered while proving", r.msg>>], <<>>)

\* process_downstream_payload
ProcessDownstreamPayload(message) ==
    LET envelope == FromSlice(message.task) IN
    IF envelope.tag = "Err"
    THEN envelope
    ELSE CatchUnwind(DelegateProving(envelope.val))

\* get_wallet: the arguments say which options are configured, and whether
\* reading the keystore / parsing the key succeeds
GetWallet(lagr_keystore, lagr_pwd, lagr_private_key, readable) ==
    CASE lagr_keystore /\ lagr_pwd /\ ~lagr_private_key ->
           IF readable THEN OkR("keystore", <<>>)
           ELSE ErrR(Error("read_keystore"), <<>>)
      [] lagr_keystore /\ ~lagr_pwd /\ lagr_private_key ->
           IF readable THEN OkR("private_key", <<>>)
           ELSE ErrR(Error("Failed to create wallet"), <<>>)
      [] OTHER ->
           ErrR(Error("Must specify either keystore path w/ password OR private key"),
                <<>>)

----------------------------------------------------------------------------
(* The liveness route *)

\* now - last_processed <= liveness_check_interval on u64.  When the clock
\* reads less than the stored value the subtraction underflows: a build with
\* overflow checks panics, one without wraps to 2^64 - (last_processed - now),
\* which is above every interval of the model.
LivenessStatuses(t, last_processed, interval) ==
    IF t < last_processed
    THEN {"FAIL", "PANIC"}
    ELSE IF t - last_processed <= interval THEN {"OK"} ELSE {"FAIL"}

----------------------------------------------------------------------------
(* run_worker *)

ProceedAfterError(reason) ==
    /\ pc' = "handshake"
    /\ exit_reason' = reason

\* run_worker returns Err (or unwinds): main panics, the process ends
Terminate(reason) ==
    /\ pc' = "terminated"
    /\ exit_reason' = reason

ServingPcs == {"waiting", "proving", "reply", "store"}

ServerUpUnlessProving == pc \in ServingPcs \ {"proving"}

\* the warp server runs on its own task from tokio::spawn until the process
\* ends; block_in_place keeps the runtime's other tasks running meanwhile
ServerUp == pc \in ServingPcs

ContinueAfterFailure == pc' = "waiting" /\ UNCHANGED exit_reason

RetryFailedTask == pc' = "proving" /\ UNCHANGED exit_reason

\* bail!("task processing failed. ..")
BailTaskFailed == Terminate("task processing failed")

SkipWorkerReady == UNCHANGED outbound

\* outbound.send(WorkerToGwRequest { request: Some(WorkerReady(..)) }).await?
HandshakeSent == outbound' = Append(outbound, WorkerReady)

AwaitsInboundOrProves == pc \in {"waiting", "proving"}

\* the loop is at inbound.next().await
AwaitsInbound == pc = "waiting"

DoneCount == Cardinality({i \in 1..Len(outbound) : outbound[i].type = "WorkerDone"})

Init ==
    /\ pc = "fetch_checksums"
    /\ exit_reason = ""
    /\ outbound = <<>>
    /\ outbound_open = TRUE
    /\ received = <<>>
    /\ cur = NoMessage
    /\ result = NotRun
    /\ proving = {}
    /\ dispatched = <<>>
    /\ provers_manager = NotBuilt
    /\ now = 0
    /\ last_task_processed = 0
    /\ liveness_check_interval \in 1..MaxInterval
    /\ http_reply = [route |-> "none", status |-> "none", busy |-> FALSE]
    /\ p_prover = "none"
    /\ p_envelope = NoMessage
    /\ p_out = NotRun
    /\ callee = "none"
    /\ args = NoMessage
    /\ ret = NotRun

\* fetch_checksums(..).await.context("downloading checksum file")?
FetchChecksums ==
    /\ pc = "fetch_checksums"
    /\ \E ok \in BOOLEAN :
         IF ok
         THEN pc' = "new_manager" /\ UNCHANGED exit_reason
         ELSE Terminate("downloading checksum file")
    /\ UNCHANGED <<outbound, outbound_open, received, cur, result, proving, now,
                   last_task_processed, liveness_check_interval, http_reply>>
    /\ UNCHANGED dispatched
    /\ UNCHANGED provers_manager
    /\ UNCHANGED harnessVars

\* EuclidQueryProver::init: params::prepare_raw fetches the parameter bytes
\* and verifies them against the checksums, bincode decodes them
EuclidQueryProverInit(prepared, deserialized) ==
    IF ~prepared
    THEN ErrR(Error("while loading bincode-serialized parameters"), <<>>)
    ELSE IF ~deserialized
         THEN ErrR(Error("bincode::deserialize_from"), <<>>)
         ELSE OkR("EuclidQueryProver", <<>>)

\* ProversManager::new: every prover of the registry is initialised, an
\* error of one of them is returned
ProversManagerNew(prepared, deserialized, others) ==
    LET query == EuclidQueryProverInit(prepared, deserialized) IN
    IF query.tag # "Ok"
    THEN query
    ELSE IF ~others
         THEN ErrR(Error("creating another prover"), <<>>)
         ELSE OkR([query |-> query.val], <<>>)

SkipProversManager ==
    /\ pc = "new_manager"
    /\ pc' = "get_wallet"
    /\ UNCHANGED <<exit_reason, outbound, outbound_open, received, cur, result,
                   proving, now, last_task_processed, liveness_check_interval,
                   http_reply>>
    /\ UNCHANGED dispatched
    /\ UNCHANGED provers_manager
    /\ UNCHANGED harnessVars

\* block_in_place(|| ProversManager::new(config, &checksums, mp2_requirement))
\*     .context("creating prover managers")?
NewProversManager ==
    /\ pc = "new_manager"
    /\ \E prepared \in BOOLEAN, deserialized \in BOOLEAN, others \in BOOLEAN :
         LET built == ProversManagerNew(prepared, deserialized, others) IN
         IF built.tag = "Ok"
         THEN /\ pc' = "get_wallet"
              /\ provers_manager' = built.val
              /\ UNCHANGED exit_reason
         ELSE /\ Terminate("creating prover managers")
              /\ UNCHANGED provers_manager
    /\ UNCHANGED <<outbound, outbound_open, received, cur, result, proving, now,
                   last_task_processed, liveness_check_interval, http_reply>>
    /\ UNCHANGED dispatched
    /\ UNCHANGED harnessVars

\* get_wallet(config).context("fetching wallet")?
FetchWallet ==
    /\ pc = "get_wallet"
    /\ \E keystore \in BOOLEAN, pwd \in BOOLEAN, pkey \in BOOLEAN, readable \in BOOLEAN :
         IF GetWallet(keystore, pwd, pkey, readable).tag = "Ok"
         THEN pc' = "connect" /\ UNCHANGED exit_reason
         ELSE Terminate("fetching wallet")
    /\ UNCHANGED <<outbound, outbound_open, received, cur, result, proving, now,
                   last_task_processed, liveness_check_interval, http_reply>>
    /\ UNCHANGED dispatched
    /\ UNCHANGED provers_manager
    /\ UNCHANGED harnessVars

\* get_claims, JWTAuth::new(..)?.encode()?, the URI, the TLS channel
Connect ==
    /\ pc = "connect"
    /\ \E ok \in BOOLEAN :
         IF ok
         THEN pc' = "handshake" /\ UNCHANGED exit_reason
         ELSE Terminate("connecting to the gateway")
    /\ UNCHANGED <<outbound, outbound_open, received, cur, result, proving, now,
                   last_task_processed, liveness_check_interval, http_reply>>
    /\ UNCHANGED dispatched
    /\ UNCHANGED provers_manager
    /\ UNCHANGED harnessVars

\* mpsc::channel(50); outbound.send(WorkerReady).await?  The receiver is
\* still held by run_worker, so the send cannot fail.
SendWorkerReady ==
    /\ pc = "handshake"
    /\ HandshakeSent
    /\ pc' = "open_stream"
    /\ UNCHANGED <<exit_reason, outbound_open, received, cur, result, proving, now,
                   last_task_processed, liveness_check_interval, http_reply>>
    /\ UNCHANGED dispatched
    /\ UNCHANGED provers_manager
    /\ UNCHANGED harnessVars

\* client.worker_to_gw(outbound_rx).await.context(..)?, then the AtomicU64 is
\* created holding the current time and the probe server is spawned
OpenStream ==
    /\ pc = "open_stream"
    /\ \E ok \in BOOLEAN :
         IF ok
         THEN /\ pc' = "waiting"
              /\ last_task_processed' = now
              /\ UNCHANGED exit_reason
         ELSE /\ Terminate("connecting worker_to_gw")
              /\ UNCHANGED last_task_processed
    /\ UNCHANGED <<outbound, outbound_open, received, cur, result, proving, now,
                   liveness_check_interval, http_reply>>
    /\ UNCHANGED dispatched
    /\ UNCHANGED provers_manager
    /\ UNCHANGED harnessVars

\* Some(Ok(msg)): task_id = msg.task_id.clone(); uuid = parse_uuid(&msg);
\* block_in_place(..) is entered.  A panic of parse_uuid unwinds out of main.
InboundMessage ==
    /\ AwaitsInbound
    /\ Len(received) < MaxTasks
    /\ \E msg \in InboundMessages :
         /\ received' = Append(received, msg.task_id)
         /\ IF ParseUuid(msg).tag = "Panic"
            THEN /\ Terminate("panic in parse_uuid")
                 /\ UNCHANGED <<cur, proving>>
            ELSE /\ pc' = "proving"
                 /\ cur' = msg
                 /\ proving' = proving \cup {Len(received) + 1}
                 /\ UNCHANGED exit_reason
    /\ UNCHANGED <<outbound, outbound_open, result, now, last_task_processed,
                   liveness_check_interval, http_reply>>
    /\ UNCHANGED dispatched
    /\ UNCHANGED provers_manager
    /\ UNCHANGED harnessVars

\* Some(Err(status)) => bail!("connection to the gateway ended ..")
InboundStatus ==
    /\ AwaitsInbound
    /\ Terminate("connection to the gateway ended")
    /\ UNCHANGED <<outbound, outbound_open, received, cur, result, proving, now,
                   last_task_processed, liveness_check_interval, http_reply>>
    /\ UNCHANGED dispatched
    /\ UNCHANGED provers_manager
    /\ UNCHANGED harnessVars

\* None => bail!("inbound connection broken")
InboundClosed ==
    /\ AwaitsInbound
    /\ Terminate("inbound connection broken")
    /\ UNCHANGED <<outbound, outbound_open, received, cur, result, proving, now,
                   last_task_processed, liveness_check_interval, http_reply>>
    /\ UNCHANGED dispatched
    /\ UNCHANGED provers_manager
    /\ UNCHANGED harnessVars

\* process_downstream_payload reaches provers_manager.delegate_proving(envelope)
\* when the payload decodes
Dispatched(message) ==
    IF FromSlice(message.task).tag = "Ok"
    THEN Append(dispatched, Len(received))
    ELSE dispatched

\* block_in_place(|| process_downstream_payload(&provers_manager, msg, uuid))
\* returns
ProcessPayload ==
    /\ pc = "proving"
    /\ result' = ProcessDownstreamPayload(cur)
    /\ dispatched' = Dispatched(cur)
    /\ UNCHANGED provers_manager
    /\ proving' = {}
    /\ pc' = "reply"
    /\ UNCHANGED <<exit_reason, outbound, outbound_open, received, cur, now,
                   last_task_processed, liveness_check_interval, http_reply>>
    /\ UNCHANGED harnessVars

\* match result: the WorkerDone is built and handed to outbound.send(..).await?
\* serde_json::to_vec(..)? precedes the send on the Ok arm; bail! follows it on
\* the Err arm
SendWorkerDone ==
    /\ pc = "reply"
    /\ IF result.tag = "Ok"
       THEN \E serialized \in BOOLEAN :
              IF ~serialized
              THEN Terminate("serde_json::to_vec") /\ UNCHANGED outbound
              ELSE IF outbound_open
                   THEN /\ outbound' = Append(outbound,
                              WorkerDone(cur.task_id, TaskOutput(ToVec(result.val))))
                        /\ pc' = "store"
                        /\ UNCHANGED exit_reason
                   ELSE Terminate("outbound send failed") /\ UNCHANGED outbound
       ELSE IF outbound_open
            THEN /\ outbound' = Append(outbound,
                       WorkerDone(cur.task_id, WorkerError(result.err)))
                 /\ BailTaskFailed
            ELSE Terminate("outbound send failed") /\ UNCHANGED outbound
    /\ UNCHANGED <<outbound_open, received, cur, result, proving, now,
                   last_task_processed, liveness_check_interval, http_reply>>
    /\ UNCHANGED dispatched
    /\ UNCHANGED provers_manager
    /\ UNCHANGED harnessVars

\* last_task_processed.store(SystemTime::now()..as_secs(), Relaxed)
StoreLastTask ==
    /\ pc = "store"
    /\ last_task_processed' = now
    /\ pc' = "waiting"
    /\ cur' = NoMessage
    /\ result' = NotRun
    /\ UNCHANGED <<exit_reason, outbound, outbound_open, received, proving, now,
                   liveness_check_interval, http_reply>>
    /\ UNCHANGED dispatched
    /\ UNCHANGED provers_manager
    /\ UNCHANGED harnessVars

\* the gateway side drops the request stream: the receiver of outbound is gone
OutboundClosed ==
    /\ pc \in ServingPcs
    /\ outbound_open
    /\ outbound_open' = FALSE
    /\ UNCHANGED <<pc, exit_reason, outbound, received, cur, result, proving, now,
                   last_task_processed, liveness_check_interval, http_reply>>
    /\ UNCHANGED dispatched
    /\ UNCHANGED provers_manager
    /\ UNCHANGED harnessVars

\* SystemTime::now() advances
Tick ==
    /\ pc # "terminated"
    /\ now < MaxTime
    /\ now' = now + 1
    /\ UNCHANGED <<pc, exit_reason, outbound, outbound_open, received, cur, result,
                   proving, last_task_processed, liveness_check_interval, http_reply>>
    /\ UNCHANGED dispatched
    /\ UNCHANGED provers_manager
    /\ UNCHANGED harnessVars

\* SystemTime is not monotonic: the wall clock is set back
ClockStepBack ==
    /\ pc # "terminated"
    /\ \E t \in 0..(now - 1) : now' = t
    /\ UNCHANGED <<pc, exit_reason, outbound, outbound_open, received, cur, result,
                   proving, last_task_processed, liveness_check_interval, http_reply>>
    /\ UNCHANGED dispatched
    /\ UNCHANGED provers_manager
    /\ UNCHANGED harnessVars

LivenessProbeStores ==
    /\ ServerUp
    /\ http_reply' = [route |-> "liveness", status |-> "OK", busy |-> proving # {}]
    /\ last_task_processed' = now
    /\ UNCHANGED <<pc, exit_reason, outbound, outbound_open, received, cur, result,
                   proving, now, liveness_check_interval>>
    /\ UNCHANGED dispatched
    /\ UNCHANGED provers_manager
    /\ UNCHANGED harnessVars

\* GET /liveness
LivenessProbe ==
    /\ ServerUp
    /\ \E status \in LivenessStatuses(now, last_task_processed, liveness_check_interval) :
         http_reply' = [route |-> "liveness", status |-> status, busy |-> proving # {}]
    /\ UNCHANGED <<pc, exit_reason, outbound, outbound_open, received, cur, result,
                   proving, now, last_task_processed, liveness_check_interval>>
    /\ UNCHANGED dispatched
    /\ UNCHANGED provers_manager
    /\ UNCHANGED harnessVars

\* GET /readiness
ReadinessProbe ==
    /\ ServerUp
    /\ http_reply' = [route |-> "readiness", status |-> "OK", busy |-> proving # {}]
    /\ UNCHANGED <<pc, exit_reason, outbound, outbound_open, received, cur, result,
                   proving, now, last_task_processed, liveness_check_interval>>
    /\ UNCHANGED dispatched
    /\ UNCHANGED provers_manager
    /\ UNCHANGED harnessVars

Next ==
    \/ FetchChecksums
    \/ NewProversManager
    \/ FetchWallet
    \/ Connect
    \/ SendWorkerReady
    \/ OpenStream
    \/ InboundMessage
    \/ InboundStatus
    \/ InboundClosed
    \/ ProcessPayload
    \/ SendWorkerDone
    \/ StoreLastTask
    \/ OutboundClosed
    \/ Tick
    \/ ClockStepBack
    \/ LivenessProbe
    \/ ReadinessProbe

Spec == Init /\ [][Next]_vars

----------------------------------------------------------------------------
(* The prover harness: run of one capability on one envelope *)

Provers == {"EuclidQueryProver", "Groth16DummyProver"}

Run(prover, envelope) ==
    IF prover = "EuclidQueryProver"
    THEN EuclidQueryProverRun(envelope)
    ELSE Groth16DummyProverRun(envelope)

WorkerIdle ==
    /\ pc = "fetch_checksums"
    /\ exit_reason = ""
    /\ outbound = <<>>
    /\ outbound_open = TRUE
    /\ received = <<>>
    /\ cur = NoMessage
    /\ result = NotRun
    /\ proving = {}
    /\ dispatched = <<>>
    /\ provers_manager = NotBuilt
    /\ now = 0
    /\ last_task_processed = 0
    /\ liveness_check_interval = 1
    /\ http_reply = [route |-> "none", status |-> "none", busy |-> FALSE]

CallIdle ==
    /\ callee = "none"
    /\ args = NoMessage
    /\ ret = NotRun

InitProver ==
    /\ WorkerIdle
    /\ CallIdle
    /\ p_prover \in Provers
    /\ p_envelope \in Envelopes(MaxRows)
    /\ p_out = NotRun

ProverRun ==
    /\ p_out = NotRun
    /\ p_out' = Run(p_prover, p_envelope)
    /\ UNCHANGED <<p_prover, p_envelope>>
    /\ UNCHANGED workerVars
    /\ UNCHANGED callVars

NextProver == ProverRun

SpecProver == InitProver /\ [][NextProver]_vars

----------------------------------------------------------------------------
(* Preprocessing task inputs, ext_tasks.rs *)

\* Vec<u8> of a trie node
NodeBytes == {<<>>, <<1>>}
\* MptNodeVersion = (BlockNr, H256)
MptNodeVersions == {<<1, "h1">>, <<2, "h2">>}
TableIds == {1, 2}
TableHashes == {10, 11}
BlockNrs == {1, 2}
Addresses == {"c1", "c2"}

\* todo!(): panics with "not yet implemented"
Todo == PanicR("not yet implemented", <<>>)

\* MappingBranchInput::new
MappingBranchInputNew(node, children) ==
    OkR([node |-> node, children |-> children, children_proofs |-> <<>>], <<>>)

\* VariableBranchInput::new
VariableBranchInputNew(table_id, node, children) ==
    OkR([table_id |-> table_id, node |-> node, children |-> children,
         children_proofs |-> <<>>], <<>>)

\* SingleTableExtraction::new: the struct expression evaluates
\* extraction_type: todo!()
SingleTableExtractionNew(table_id, table_hash, block_nr, contract, value_proof_version) ==
    LET extraction_type == Todo IN
    IF extraction_type.tag = "Panic"
    THEN extraction_type
    ELSE OkR([table_id |-> table_id, table_hash |-> table_hash,
              block_nr |-> block_nr, contract |-> contract,
              value_proof_version |-> value_proof_version,
              extraction_type |-> extraction_type.val,
              block_proof |-> <<>>, contract_proof |-> <<>>,
              value_proof |-> <<>>, length_proof |-> <<>>], <<>>)

\* MergeTableExtraction::new
MergeTableExtractionNew(table_id, simple_table_hash, mapping_table_hash, block_nr, contract, value_proof_version) ==
    OkR([table_id |-> table_id, simple_table_hash |-> simple_table_hash,
         mapping_table_hash |-> mapping_table_hash, block_nr |-> block_nr,
         contract |-> contract, value_proof_version |-> value_proof_version,
         block_proof |-> <<>>, contract_proof |-> <<>>,
         simple_table_proof |-> <<>>, mapping_table_proof |-> <<>>], <<>>)

\* Self::Single(..) / Self::Merge(..) around the value of the inner
\* constructor; a panic of the inner constructor unwinds through it
FinalExtractionOf(variant, inner) ==
    IF inner.tag = "Ok"
    THEN OkR([variant |-> variant, extraction |-> inner.val], <<>>)
    ELSE inner

\* FinalExtraction::new_single_table
FinalExtractionNewSingleTable(table_id, table_hash, block_nr, contract, value_proof_version) ==
    FinalExtractionOf("Single",
        SingleTableExtractionNew(table_id, table_hash, block_nr, contract,
                                 value_proof_version))

\* FinalExtraction::new_merge_table
FinalExtractionNewMergeTable(table_id, simple_table_hash, mapping_table_hash, block_nr, contract, value_proof_version) ==
    FinalExtractionOf("Merge",
        MergeTableExtractionNew(table_id, simple_table_hash, mapping_table_hash,
                                block_nr, contract, value_proof_version))

\* a trie node, with the structural type its bytes have ("invalid" when
\* they have none)
Nodes == [rlp : {"n"}, shape : {"Leaf", "Extension", "Branch", "invalid"}]

\* node_type(node)
NodeTypeOf(node) ==
    IF node.shape = "invalid"
    THEN ErrR(Error("node_type"), <<>>)
    ELSE OkR(node.shape, <<>>)

RECURSIVE CollectValid(_, _, _)
CollectValid(nodes, i, acc) ==
    IF i > Len(nodes)
    THEN OkR(acc, <<>>)
    ELSE LET item == NodeTypeOf(nodes[i]) IN
         IF item.tag = "Err"
         THEN CollectValid(nodes, i + 1, acc)
         ELSE CollectValid(nodes, i + 1, Append(acc, item.val))

\* .map(|node| node_type(node)).collect::<anyhow::Result<Vec<NodeType>>>():
\* the first Err ends the iteration and is the result
RECURSIVE Collect(_, _, _)
Collect(nodes, i, acc) ==
    IF i > Len(nodes)
    THEN OkR(acc, <<>>)
    ELSE LET item == NodeTypeOf(nodes[i]) IN
         IF item.tag = "Err"
         THEN item
         ELSE Collect(nodes, i + 1, Append(acc, item.val))

\* BatchedLength::extraction_types
BatchedLengthExtractionTypes(self) == Collect(self.nodes, 1, <<>>)

\* BatchedContract::extraction_types
BatchedContractExtractionTypes(self) == Collect(self.nodes, 1, <<>>)

----------------------------------------------------------------------------
(* The call harness: one call of one function on one tuple of arguments *)

ProverIdle ==
    /\ p_prover = "none"
    /\ p_envelope = NoMessage
    /\ p_out = NotRun

\* config.avs.{lagr_keystore, lagr_pwd, lagr_private_key}: which options are
\* Some, and whether the keystore can be read / the key parsed
WalletConfigs ==
    [lagr_keystore : BOOLEAN, lagr_pwd : BOOLEAN, lagr_private_key : BOOLEAN,
     readable : BOOLEAN]

\* the arguments of the constructors of ext_tasks.rs
BranchArgs == [node : NodeBytes, children : SeqsUpTo(MptNodeVersions, 1)]
VariableBranchArgs ==
    [table_id : TableIds, node : NodeBytes, children : SeqsUpTo(MptNodeVersions, 1)]
SingleTableArgs ==
    [table_id : TableIds, table_hash : TableHashes, block_nr : BlockNrs,
     contract : Addresses, value_proof_version : MptNodeVersions]
MergeTableArgs ==
    [table_id : TableIds, simple_table_hash : TableHashes,
     mapping_table_hash : TableHashes, block_nr : BlockNrs,
     contract : Addresses, value_proof_version : MptNodeVersions]

\* BatchedLength { table_hash, block_nr, length_slot, variable_slot, nodes }
BatchedLengths ==
    [table_hash : {10}, block_nr : {1}, length_slot : {0}, variable_slot : {1},
     nodes : SeqsUpTo(Nodes, MaxNodes)]
\* BatchedContract { block_nr, storage_root, contract, nodes }
BatchedContracts ==
    [block_nr : {1}, storage_root : {<<1>>}, contract : {"c1"},
     nodes : SeqsUpTo(Nodes, MaxNodes)]

InitCall ==
    /\ WorkerIdle
    /\ ProverIdle
    /\ ret = NotRun
    /\ \/ callee = "get_wallet" /\ args \in WalletConfigs
       \/ callee = "MappingBranchInput::new" /\ args \in BranchArgs
       \/ callee = "VariableBranchInput::new" /\ args \in VariableBranchArgs
       \/ callee \in {"SingleTableExtraction::new", "FinalExtraction::new_single_table"}
            /\ args \in SingleTableArgs
       \/ callee \in {"MergeTableExtraction::new", "FinalExtraction::new_merge_table"}
            /\ args \in MergeTableArgs
       \/ callee = "BatchedLength::extraction_types" /\ args \in BatchedLengths
       \/ callee = "BatchedContract::extraction_types" /\ args \in BatchedContracts

Returns(value) ==
    /\ ret = NotRun
    /\ ret' = value
    /\ UNCHANGED <<callee, args>>
    /\ UNCHANGED workerVars
    /\ UNCHANGED proverVars

CallGetWallet ==
    /\ callee = "get_wallet"
    /\ Returns(GetWallet(args.lagr_keystore, args.lagr_pwd, args.lagr_private_key,
                         args.readable))

CallMappingBranchInputNew ==
    /\ callee = "MappingBranchInput::new"
    /\ Returns(MappingBranchInputNew(args.node, args.children))

CallVariableBranchInputNew ==
    /\ callee = "VariableBranchInput::new"
    /\ Returns(VariableBranchInputNew(args.table_id, args.node, args.children))

CallSingleTableExtractionNew ==
    /\ callee = "SingleTableExtraction::new"
    /\ Returns(SingleTableExtractionNew(args.table_id, args.table_hash, args.block_nr,
                                        args.contract, args.value_proof_version))

CallMergeTableExtractionNew ==
    /\ callee = "MergeTableExtraction::new"
    /\ Returns(MergeTableExtractionNew(args.table_id, args.simple_table_hash,
                                       args.mapping_table_hash, args.block_nr,
                                       args.contract, args.value_proof_version))

CallFinalExtractionNewSingleTable ==
    /\ callee = "FinalExtraction::new_single_table"
    /\ Returns(FinalExtractionNewSingleTable(args.table_id, args.table_hash,
                                             args.block_nr, args.contract,
                                             args.value_proof_version))

CallFinalExtractionNewMergeTable ==
    /\ callee = "FinalExtraction::new_merge_table"
    /\ Returns(FinalExtractionNewMergeTable(args.table_id, args.simple_table_hash,
                                            args.mapping_table_hash, args.block_nr,
                                            args.contract, args.value_proof_version))

CallBatchedLengthExtractionTypes ==
    /\ callee = "BatchedLength::extraction_types"
    /\ Returns(BatchedLengthExtractionTypes(args))

CallBatchedContractExtractionTypes ==
    /\ callee = "BatchedContract::extraction_types"
    /\ Returns(BatchedContractExtractionTypes(args))

NextCall ==
    \/ CallGetWallet
    \/ CallMappingBranchInputNew
    \/ CallVariableBranchInputNew
    \/ CallSingleTableExtractionNew
    \/ CallMergeTableExtractionNew
    \/ CallFinalExtractionNewSingleTable
    \/ CallFinalExtractionNewMergeTable
    \/ CallBatchedLengthExtractionTypes
    \/ CallBatchedContractExtractionTypes

SpecCall == InitCall /\ [][NextCall]_vars

----------------------------------------------------------------------------
(* Properties of the serving loop, checked under Spec *)

\* the task in hand was decoded and its dispatch returned an error (not a
\* contained panic)
DispatchFailed ==
    /\ cur # NoMessage
    /\ cur.task.json
    /\ result.tag = "Err"
    /\ result.err.kind # "panic"

FailureReply == WorkerDone(cur.task_id, WorkerError(result.err))

TerminatedIsFinal ==
    pc = "terminated" =>
        /\ pc' = "terminated"
        /\ outbound' = outbound
        /\ received' = received

\* C1, as stated: whenever the dispatch of a received task T fails, the loop
\* sends one WorkerDone carrying T's task_id and a WorkerError and ends; once
\* ended it reads no inbound message and sends no outbound message.
C1_CrashOnlyAsStated ==
    [][/\ (pc = "reply" /\ DispatchFailed /\ pc' # pc) =>
             /\ pc' = "terminated"
             /\ outbound' = Append(outbound, FailureReply)
       /\ TerminatedIsFinal]_vars

\* C1, amended: whenever the dispatch of a received task T fails, the loop ends;
\* if the outbound channel still has its receiver, exactly the WorkerDone
\* carrying T's task_id and the WorkerError was sent before, and if the
\* receiver is gone nothing is sent.  Once ended the loop reads no inbound
\* message and sends no outbound message.
C1_CrashOnly ==
    [][/\ (pc = "reply" /\ DispatchFailed /\ pc' # pc) =>
             /\ pc' = "terminated"
             /\ outbound' = IF outbound_open
                            THEN Append(outbound, FailureReply)
                            ELSE outbound
       /\ TerminatedIsFinal]_vars

C1_Witness ==
    /\ pc = "terminated"
    /\ exit_reason = "task processing failed"
    /\ DispatchFailed
    /\ outbound[Len(outbound)] = FailureReply

DoneMessages == SelectSeq(outbound, LAMBDA m : m.type = "WorkerDone")

\* C2: once a received message has been dealt with (the loop awaits the next
\* one, or has ended), exactly one WorkerDone was sent for every received
\* message, the i-th carrying the i-th message's task_id and one outcome.
C2_ExactlyOneDone ==
    pc \in {"waiting", "terminated"} =>
        /\ Len(DoneMessages) = Len(received)
        /\ \A i \in 1..Len(received) :
             /\ DoneMessages[i].task_id = received[i]
             /\ DoneMessages[i].reply.kind \in {"TaskOutput", "WorkerError"}

ReadyCount == Cardinality({i \in 1..Len(outbound) : outbound[i].type = "WorkerReady"})

\* C7: the WorkerReady handshake is the first message of the outbound stream
\* and the only WorkerReady on it; it has been sent once the stream is opened.
C7_HandshakeFirstAndOnce ==
    /\ ReadyCount <= 1
    /\ outbound # <<>> => outbound[1].type = "WorkerReady"
    /\ pc \in ServingPcs \cup {"open_stream"} => ReadyCount = 1

C7_Witness ==
    /\ Len(outbound) = 3
    /\ outbound[1].type = "WorkerReady"
    /\ outbound[2].type = "WorkerDone"
    /\ outbound[3].type = "WorkerDone"

\* C8: at most one proving computation is in progress, and the loop awaits
\* the next inbound message only when a WorkerDone was handed to the outbound
\* stream for every message received so far.
C8_StrictlySequential ==
    /\ Cardinality(proving) <= 1
    /\ proving # {} => pc = "proving"
    /\ AwaitsInbound => DoneCount = Len(received)

C8_Witness ==
    /\ pc = "proving"
    /\ proving = {2}
    /\ DoneCount = 1

\* C9: a liveness probe answers OK exactly when now - last_task_processed is
\* at most liveness_check_interval, and FAIL otherwise.
C9_LivenessThreshold ==
    [][LivenessProbe =>
         http_reply'.status = IF now - last_task_processed <= liveness_check_interval
                              THEN "OK"
                              ELSE "FAIL"]_vars

\* C10: while a proof computation is in progress both probes can be answered.
C10_ProbesNotBlocked ==
    proving # {} => (ENABLED LivenessProbe) /\ (ENABLED ReadinessProbe)

C10_Witness ==
    /\ pc = "proving"
    /\ http_reply.route = "liveness"
    /\ http_reply.busy

----------------------------------------------------------------------------
(* Properties of the provers, checked under SpecProver *)

ForeignFamily ==
    \/ p_prover = "EuclidQueryProver" /\ p_envelope.task.family # "V1Query"
    \/ p_prover = "Groth16DummyProver" /\ p_envelope.task.family # "V1Groth16"

\* C3: whenever run succeeds, the reply envelope carries the task_id of the
\* envelope it was given.
C3_ReplyCorrelates ==
    p_out.tag = "Ok" => p_out.val.task_id = p_envelope.task_id

C3_Witness ==
    /\ p_out.tag = "Ok"
    /\ p_prover = "EuclidQueryProver"
    /\ p_envelope.task_id = "t2"

\* C4: run of a capability on an envelope of another family returns an
\* "unsupported task type" error value.
C4_ForeignFamilyRejected ==
    (p_out # NotRun /\ ForeignFamily) =>
        /\ p_out.tag = "Err"
        /\ p_out.err.kind = "unsupported task type"

IsTabular ==
    /\ p_prover = "EuclidQueryProver"
    /\ p_envelope.task.family = "V1Query"
    /\ p_envelope.task.input.query_step.step = "Tabular"

RowsInputs == p_envelope.task.input.query_step.rows_inputs
MatchingRowsIn == p_envelope.task.input.query_step.revelation_input.matching_rows

CallsOf(out, op) == SelectSeq(out.calls, LAMBDA c : c.op = op)

\* C5: a Tabular step whose row inputs and matching rows differ in number
\* fails: no proof is returned, no row is proved and no revelation proof is
\* attempted.
C5_RowCountMismatchFails ==
    (p_out # NotRun /\ IsTabular /\ Len(RowsInputs) # Len(MatchingRowsIn)) =>
        /\ p_out.tag # "Ok"
        /\ CallsOf(p_out, "generate_proof") = <<>>
        /\ CallsOf(p_out, "new_revelation_tabular") = <<>>

\* the proof the engine gives for a row input
RowProof(row_input) == GenerateProof(NewUniversalCircuit(row_input).val).val

IndexPermutations(n) == {f \in [1..n -> 1..n] : \A i, j \in 1..n : f[i] = f[j] => i = j}
Permuted(seq, f) == [i \in 1..Len(seq) |-> seq[f[i]]]

PermutedEnvelope(f) ==
    [p_envelope EXCEPT
       !.task.input.query_step.rows_inputs = Permuted(RowsInputs, f),
       !.task.input.query_step.revelation_input.matching_rows =
           Permuted(MatchingRowsIn, f)]

\* the sequences of hydrated rows handed to new_revelation_tabular
HydratedBy(out) ==
    [k \in 1..Len(CallsOf(out, "new_revelation_tabular")) |->
       CallsOf(out, "new_revelation_tabular")[k].input]

\* C6: for n row inputs and n matching rows, the hydrated rows handed to the
\* revelation proof are n, the i-th being the i-th matching row hydrated with
\* the proof of the i-th row input; permuting both inputs alike permutes the
\* hydrated rows alike.
C6_PairwiseInOrder ==
    (p_out # NotRun /\ IsTabular /\ Len(RowsInputs) = Len(MatchingRowsIn)) =>
        /\ \A k \in 1..Len(HydratedBy(p_out)) :
             /\ Len(HydratedBy(p_out)[k]) = Len(RowsInputs)
             /\ \A i \in 1..Len(RowsInputs) :
                  HydratedBy(p_out)[k][i] =
                      Hydrate(MatchingRowsIn[i], RowProof(RowsInputs[i]))
        /\ \A f \in IndexPermutations(Len(RowsInputs)) :
             LET other == HydratedBy(EuclidQueryProverRun(PermutedEnvelope(f)))
             IN  /\ Len(other) = Len(HydratedBy(p_out))
                 /\ \A k \in 1..Len(other) : other[k] = Permuted(HydratedBy(p_out)[k], f)

C6_Witness ==
    /\ IsTabular
    /\ p_out.tag = "Ok"
    /\ Len(RowsInputs) = 2
    /\ Len(MatchingRowsIn) = 2
    /\ RowsInputs[1] # RowsInputs[2]
    /\ MatchingRowsIn[1] # MatchingRowsIn[2]
    /\ Len(HydratedBy(p_out)) = 1

\* the proving calls made for rows, and the revelation circuits built
RowProvingCalls(out) ==
    SelectSeq(CallsOf(out, "generate_proof"), LAMBDA c : c.input.kind = "Query")
RevelationCalls(out) == CallsOf(out, "new_revelation_tabular")

\* the rows of the step whose circuit the engine does not build and prove
FailingRows == {i \in 1..Len(RowsInputs) : RowsInputs[i].engine # "ok"}

\* C21: for a Tabular step with n rows the rows are proved one after another
\* in input order; the revelation proof is attempted once, and only after
\* all n row proofs succeeded; when building or proving a row fails no later
\* row is proved, no revelation proof is attempted and the task fails; on
\* success the proof returned is the revelation proof.
C21_TabularOrder ==
    (p_out # NotRun /\ IsTabular) =>
        /\ Len(RowProvingCalls(p_out)) <= Len(RowsInputs)
        /\ \A k \in 1..Len(RowProvingCalls(p_out)) :
             RowProvingCalls(p_out)[k].input = NewUniversalCircuit(RowsInputs[k]).val
        /\ RevelationCalls(p_out) # <<>> =>
             /\ Len(RevelationCalls(p_out)) = 1
             /\ Len(RowProvingCalls(p_out)) = Len(RowsInputs)
             /\ FailingRows = {}
        /\ FailingRows # {} =>
             /\ p_out.tag # "Ok"
             /\ RevelationCalls(p_out) = <<>>
             /\ \A i \in FailingRows : Len(RowProvingCalls(p_out)) <= i
        /\ p_out.tag = "Ok" =>
             /\ Len(RevelationCalls(p_out)) = 1
             /\ p_out.val.proof.proof_of.kind = "Revelation"
             /\ p_out.val.proof.proof_of.matching_rows = RevelationCalls(p_out)[1].input

IsCircuitInputStep ==
    /\ p_prover = "EuclidQueryProver"
    /\ p_envelope.task.family = "V1Query"
    /\ p_envelope.task.input.query_step.step = "QueryCircuitInput"

BoxedCircuitInput == p_envelope.task.input.query_step.circuit_input

\* one proving call on the boxed circuit input; its proof is returned when
\* it succeeds and the task fails when it fails
PassThrough ==
    /\ p_out.calls = <<[op |-> "generate_proof", input |-> BoxedCircuitInput]>>
    /\ IF GenerateProof(BoxedCircuitInput).tag = "Ok"
       THEN /\ p_out.tag = "Ok"
            /\ p_out.val.proof = GenerateProof(BoxedCircuitInput).val
       ELSE p_out.tag = GenerateProof(BoxedCircuitInput).tag

\* C22, as stated: for a QueryCircuitInput step exactly one proving call is
\* made, on the boxed circuit input; its proof is returned when it succeeds,
\* and the task fails only when that call fails.
C22_PassThroughAsStated ==
    (p_out # NotRun /\ IsCircuitInputStep) => PassThrough

\* C22, amended: for a QueryCircuitInput step whose pis bytes decode, exactly
\* one proving call is made, on the boxed circuit input; its proof is
\* returned when it succeeds and the task fails when it fails.  When the pis
\* bytes do not decode the task fails and no proving call is made.
C22_PassThrough ==
    (p_out # NotRun /\ IsCircuitInputStep) =>
        IF p_envelope.task.input.pis.json
        THEN PassThrough
        ELSE /\ p_out.tag = "Err"
             /\ p_out.calls = <<>>

C22_Witness ==
    /\ IsCircuitInputStep
    /\ ~p_envelope.task.input.pis.json
    /\ BoxedCircuitInput.engine = "ok"
    /\ p_out.tag = "Err"

OwnFamilyOfDummy ==
    /\ p_prover = "Groth16DummyProver"
    /\ p_envelope.task.family = "V1Groth16"

\* C20: run of the dummy Groth16 prover on a Groth16 envelope returns a
\* reply whose proof is exactly 32 bytes long and whose task_id is the
\* envelope's task_id.
C20_DummyReply ==
    (OwnFamilyOfDummy /\ p_out # NotRun) =>
        /\ p_out.tag = "Ok"
        /\ p_out.val.proof.len = 32
        /\ p_out.val.task_id = p_envelope.task_id

C20_Witness ==
    /\ OwnFamilyOfDummy
    /\ p_out.tag = "Ok"
    /\ p_out.val.proof.dummy
    /\ p_envelope.task_id = "t2"

----------------------------------------------------------------------------
(* Failure paths of the serving loop, checked under Spec *)

\* the task in hand was decoded and its dispatch panicked inside the
\* catch_unwind boundary
DispatchPanicked ==
    /\ cur # NoMessage
    /\ cur.task.json
    /\ result.tag = "Err"
    /\ result.err.kind = "panic"

\* block_in_place returns the error the panic was converted into
PanicConverted ==
    (/\ pc = "proving"
     /\ cur.task.json
     /\ DelegateProving(FromSlice(cur.task).val).tag = "Panic"
     /\ pc' # pc) =>
        /\ pc' = "reply"
        /\ result'.tag = "Err"
        /\ result'.err.kind = "panic"

\* C11, as stated: a panic raised during dispatch becomes an error result of
\* the task; a WorkerDone carrying the task's task_id and a WorkerError is
\* sent, and only then the loop ends.
C11_PanicReportedAsStated ==
    [][/\ PanicConverted
       /\ (pc = "reply" /\ DispatchPanicked /\ pc' # pc) =>
             /\ pc' = "terminated"
             /\ outbound' = Append(outbound, FailureReply)]_vars

\* C11, amended: a panic raised during dispatch becomes an error result of
\* the task and the loop then ends; if the outbound channel still has its
\* receiver exactly the WorkerDone carrying the task's task_id and the
\* WorkerError was sent before, and if the receiver is gone nothing is sent.
C11_PanicContained ==
    [][/\ PanicConverted
       /\ (pc = "reply" /\ DispatchPanicked /\ pc' # pc) =>
             /\ pc' = "terminated"
             /\ outbound' = IF outbound_open
                            THEN Append(outbound, FailureReply)
                            ELSE outbound]_vars

C11_Witness ==
    /\ pc = "terminated"
    /\ exit_reason = "task processing failed"
    /\ DispatchPanicked
    /\ outbound[Len(outbound)] = FailureReply
    /\ cur.task.value.task.family = "V1Query"

\* the payload of the message in hand did not decode as an envelope
DecodeFailed ==
    /\ cur # NoMessage
    /\ ~cur.task.json
    /\ result.tag = "Err"

\* process_downstream_payload returns the decode error, no prover is called
DecodeErrorReturned ==
    (pc = "proving" /\ ~cur.task.json /\ pc' # pc) =>
        /\ pc' = "reply"
        /\ result' = ErrR(Error("Failed to deserialize envelope"), <<>>)

ListedCauses ==
    {"inbound connection broken", "connection to the gateway ended",
     "task processing failed", "outbound send failed"}

\* C14: the inbound stream closing, an inbound error status, a failed task
\* (decode failure, dispatch failure, panic during dispatch) and an outbound
\* send failure each end the serving loop; once ended it reads no inbound
\* message and sends no outbound message; and the serving loop ends for no
\* other cause.
C14_OnlyListedEventsTerminate ==
    [][/\ (pc = "waiting" /\ pc' # pc /\ received' = received) => pc' = "terminated"
       /\ (pc = "reply" /\ result.tag = "Err" /\ pc' # pc) => pc' = "terminated"
       /\ (pc = "reply" /\ ~outbound_open /\ pc' # pc) => pc' = "terminated"
       /\ TerminatedIsFinal
       /\ (pc \in ServingPcs /\ pc' = "terminated") => exit_reason' \in ListedCauses]_vars

\* the errors of run_worker before the connection to the gateway is made
StartupErrors ==
    {"downloading checksum file", "creating prover managers", "fetching wallet"}

\* C15: when fetching the checksum manifest, building the prover registry or
\* obtaining the credentials fails, the process has ended; no WorkerReady (nor
\* any other message) was sent, no task was read, and neither the handshake,
\* nor opening the stream, nor reading a task can happen any more.
C15_StartupErrorsPreventServing ==
    exit_reason \in StartupErrors =>
        /\ pc = "terminated"
        /\ outbound = <<>>
        /\ received = <<>>
        /\ ~ENABLED SendWorkerReady
        /\ ~ENABLED OpenStream
        /\ ~ENABLED InboundMessage

C15_Witness ==
    /\ exit_reason = "creating prover managers"
    /\ pc = "terminated"
    /\ outbound = <<>>

\* the WorkerDone of the task in hand, for a successful result
SuccessReply == WorkerDone(cur.task_id, TaskOutput(ToVec(result.val)))

\* C16: once the stream is open, last_task_processed changes only in the
\* step of the serving loop that follows sending the WorkerDone of a
\* successful task, and then to the current time; before that it only
\* receives its initial value when it is created at stream open.  A step
\* that ends the process (failed task, decode failure, panic, stream error)
\* and every answer of a probe leave it unchanged.
C16_TimestampOnlyOnSuccess ==
    [][/\ (pc \in ServingPcs /\ last_task_processed' # last_task_processed) =>
             /\ pc = "store"
             /\ result.tag = "Ok"
             /\ outbound[Len(outbound)] = SuccessReply
             /\ last_task_processed' = now
       /\ (pc \notin ServingPcs /\ last_task_processed' # last_task_processed) =>
             /\ pc = "open_stream"
             /\ pc' = "waiting"
             /\ last_task_processed' = now
       /\ pc' = "terminated" => last_task_processed' = last_task_processed
       /\ http_reply' # http_reply => last_task_processed' = last_task_processed]_vars

C16_Witness ==
    /\ pc = "waiting"
    /\ DoneCount = 1
    /\ outbound[Len(outbound)].reply.kind = "TaskOutput"
    /\ last_task_processed = now
    /\ now = MaxTime
    /\ http_reply.route = "liveness"

\* C17: every received task is handed to delegate_proving at most once, in
\* the order received, and after a task failed nothing is dispatched again.
C17_NoRetry ==
    /\ Len(dispatched) <= Len(received)
    /\ \A i \in 1..Len(dispatched) : dispatched[i] \in 1..Len(received)
    /\ \A i, j \in 1..Len(dispatched) : i < j => dispatched[i] < dispatched[j]
    /\ (pc \in {"reply", "terminated"} /\ result.tag = "Err") => ~ENABLED ProcessPayload

C17_Witness ==
    /\ pc = "terminated"
    /\ result.tag = "Err"
    /\ cur.task.json
    /\ dispatched = <<1, 2>>
    /\ DoneCount = 2

\* ends of run_worker that come from the stream or from sending
StreamOrSendErrors ==
    {"inbound connection broken", "connection to the gateway ended",
     "outbound send failed", "serde_json::to_vec"}

\* C23: after the WorkerDone of a successful task is sent the loop awaits the
\* next inbound message, every message received so far being answered; and
\* the serving loop ends only when the stream closes or errs, a send fails,
\* or the task in hand failed.
C23_SuccessKeepsServing ==
    [][/\ (pc = "store" /\ pc' # pc) =>
             /\ pc' = "waiting"
             /\ DoneCount = Len(received)
       /\ (pc \in ServingPcs /\ pc' = "terminated") =>
             \/ exit_reason' \in StreamOrSendErrors
             \/ result.tag = "Err"]_vars

\* the positions of run_worker after ProversManager::new returned Ok
AfterRegistryPcs == {"get_wallet", "connect", "handshake", "open_stream"} \cup ServingPcs

\* C24: provers_manager is bound once, by the step that builds the registry,
\* before the handshake is sent and before any task is read; no later step
\* changes it, so every task is dispatched through the registry built at
\* startup.
C24_RegistryBuiltOnce ==
    [][/\ provers_manager' # provers_manager =>
             /\ pc = "new_manager"
             /\ provers_manager = NotBuilt
             /\ outbound = <<>>
             /\ received = <<>>
       /\ pc' \in AfterRegistryPcs => provers_manager' # NotBuilt
       /\ dispatched' # dispatched => provers_manager # NotBuilt]_vars

C24_Witness ==
    /\ pc = "reply"
    /\ dispatched = <<1, 2>>
    /\ provers_manager = [query |-> "EuclidQueryProver"]

\* C25: the i-th WorkerDone sent carries the task_id field of the i-th
\* inbound message read, whether it reports a proof or an error, whether or
\* not the payload decoded, and whatever task_id the decoded envelope holds.
C25_DoneCarriesWireTaskId ==
    /\ Len(DoneMessages) <= Len(received)
    /\ \A i \in 1..Len(DoneMessages) : DoneMessages[i].task_id = received[i]

\* a proof reported under the wire task_id although the reply envelope holds
\* another one, then a payload that does not decode reported under its own
C25_Witness ==
    /\ pc = "terminated"
    /\ Len(DoneMessages) = 2
    /\ DoneMessages[1].reply.kind = "TaskOutput"
    /\ DoneMessages[1].task_id = [some |-> TRUE, len |-> UuidLen, v |-> "a"]
    /\ DoneMessages[1].reply.bytes.value.task_id = "t1"
    /\ ~cur.task.json
    /\ DoneMessages[2].reply.kind = "WorkerError"
    /\ ~DoneMessages[2].task_id.some

\* WorkerDone messages that report a proof
CompletedCount ==
    Cardinality({i \in 1..Len(DoneMessages) : DoneMessages[i].reply.kind = "TaskOutput"})

\* C26: last_task_processed starts as the time the stream was opened; while
\* no task has completed a liveness probe answers OK as long as the time
\* since then is at most liveness_check_interval, and FAIL once it is longer.
C26_InitialisedAtStreamOpen ==
    [][/\ (pc = "open_stream" /\ pc' = "waiting") => last_task_processed' = now
       /\ (LivenessProbe /\ CompletedCount = 0) =>
             http_reply'.status =
                 IF now - last_task_processed <= liveness_check_interval
                 THEN "OK"
                 ELSE "FAIL"]_vars

\* C27: whenever a liveness probe can read it, the stored timestamp is at
\* most the wall-clock value the probe reads, so that now - last_processed
\* does not underflow.
C27_NoUnderflow ==
    ENABLED LivenessProbe => last_task_processed <= now

----------------------------------------------------------------------------
(* Properties of single functions, checked under SpecCall *)

KeystoreConfigured == args.lagr_keystore /\ args.lagr_pwd
PrivateKeyConfigured == args.lagr_private_key

\* C12: get_wallet returns key material when exactly one of keystore path
\* with password and raw private key is configured (and the configured one
\* can be read), and returns the configuration error when both or neither
\* are configured.
C12_ExactlyOneCredential ==
    (callee = "get_wallet" /\ ret # NotRun) =>
        IF KeystoreConfigured # PrivateKeyConfigured
        THEN args.readable => ret.tag = "Ok"
        ELSE /\ ret.tag = "Err"
             /\ ret.err = Error("Must specify either keystore path w/ password OR private key")

Constructors ==
    {"MappingBranchInput::new", "VariableBranchInput::new",
     "SingleTableExtraction::new", "MergeTableExtraction::new",
     "FinalExtraction::new_single_table", "FinalExtraction::new_merge_table"}

\* the proof-accumulator fields of the value each constructor builds
AccumulatorFields ==
    [c \in Constructors |->
       CASE c \in {"MappingBranchInput::new", "VariableBranchInput::new"} ->
              {"children_proofs"}
         [] c \in {"SingleTableExtraction::new", "FinalExtraction::new_single_table"} ->
              {"block_proof", "contract_proof", "value_proof", "length_proof"}
         [] OTHER ->
              {"block_proof", "contract_proof", "simple_table_proof",
               "mapping_table_proof"}]

\* the struct a constructor returned (inside the FinalExtraction variant)
Constructed ==
    IF callee \in {"FinalExtraction::new_single_table", "FinalExtraction::new_merge_table"}
    THEN ret.val.extraction
    ELSE ret.val

\* C18: every task-variant constructor returns a value whose required
\* fields equal its arguments and whose proof-accumulator fields are empty.
C18_ConstructorsFixFields ==
    (callee \in Constructors /\ ret # NotRun) =>
        /\ ret.tag = "Ok"
        /\ \A f \in DOMAIN args : Constructed[f] = args[f]
        /\ \A f \in AccumulatorFields[callee] : Constructed[f] = <<>>
        /\ callee = "FinalExtraction::new_single_table" => ret.val.variant = "Single"
        /\ callee = "FinalExtraction::new_merge_table" => ret.val.variant = "Merge"

Classifiers == {"BatchedLength::extraction_types", "BatchedContract::extraction_types"}

\* C19: extraction_types returns an error, and no classification, when the
\* classification of any node of the batch fails; otherwise it returns one
\* NodeType per node, the i-th being that of the i-th node.
C19_AllOrNothing ==
    (callee \in Classifiers /\ ret # NotRun) =>
        IF \E i \in 1..Len(args.nodes) : NodeTypeOf(args.nodes[i]).tag = "Err"
        THEN /\ ret.tag = "Err"
             /\ "val" \notin DOMAIN ret
        ELSE /\ ret.tag = "Ok"
             /\ Len(ret.val) = Len(args.nodes)
             /\ \A i \in 1..Len(args.nodes) : ret.val[i] = NodeTypeOf(args.nodes[i]).val

\* a batch whose second node fails after a first that classifies
C19_Witness ==
    /\ callee = "BatchedLength::extraction_types"
    /\ ret.tag = "Err"
    /\ Len(args.nodes) = 2
    /\ args.nodes[1].shape = "Branch"
    /\ args.nodes[2].shape = "invalid"

====
